---- MODULE Spec2Model ----
(***************************************************************************)
(* A model of the CHIP-8 virtual machine of WillKirkmanM/chip-8: the       *)
(* Chip8 struct, New, LoadROMFromBytes, UpdateTimers and EmulateCycle of   *)
(* package chip8, and Update, Draw and updatePixelBuffer of the renderer.   *)
(*                                                                         *)
(* The machine is a record c with one field per field of the Go struct.    *)
(* Memory, a [4096]byte, is kept as the function from the addresses of its *)
(* non-zero bytes to those bytes (Rd reads it, Wr writes it), and Display, *)
(* a [32][64]bool, as the set of the <<row, column>> pairs that are true.  *)
(* A []byte is kept like Memory, with its length: [len, data].             *)
(* The renderer's PixelBuffer, a []byte of 4 bytes a pixel, is kept as the  *)
(* set of the <<index, byte>> pairs of its non-zero bytes.                 *)
(* Every operation is a pure operator from a machine to the machine it     *)
(* leaves behind. A Go run-time panic (an array index out of range) is     *)
(* kept as a fault: the operation returns the machine as it stood at the   *)
(* faulting access, with the array and the index of that access, and the   *)
(* process runs no further operation.                                      *)
(***************************************************************************)
EXTENDS Integers, Sequences, FiniteSets, TLC

VARIABLES V, I, PC, SP, DT, ST, Memory, Stack, Display, Keys, DrawFlag,
          fault, lastOp, rom, PixelBuffer, frame

chip == <<V, I, PC, SP, DT, ST, Memory, Stack, Display, Keys, DrawFlag>>
host == <<PixelBuffer, frame>>
vars == <<V, I, PC, SP, DT, ST, Memory, Stack, Display, Keys, DrawFlag,
          fault, lastOp, rom, PixelBuffer, frame>>

---------------------------------------------------------------------------
(* Constants of package chip8 *)

DisplayWidth == 64
DisplayHeight == 32
MemorySize == 4096
ProgramStartAddr == 512
FontEndAddr == 80
RegisterCount == 16
StackSize == 16
KeyCount == 16
FontSpriteHeight == 5
SpriteWidth == 8
VFRegister == 15
InstructionSize == 2
ByteMax == 255
SpriteLeftBit == 128
AddressMax == 4095
Hundreds == 100
Tens == 10

(* Widths of the Go integer types *)
ByteMod == 256
U16Mod == 65536

Byte(n) == n % ByteMod
U16(n) == n % U16Mod

fontSet ==
  << 240, 144, 144, 144, 240,
      32,  96,  32,  32, 112,
     240,  16, 240, 128, 240,
     240,  16, 240,  16, 240,
     144, 144, 240,  16,  16,
     240, 128, 240,  16, 240,
     240, 128, 240, 144, 240,
     240,  16,  32,  64,  64,
     240, 144, 240, 144, 240,
     240, 144, 240,  16, 240,
     240, 144, 240, 144, 144,
     224, 144, 224, 144, 224,
     240, 128, 128, 128, 240,
     224, 144, 144, 144, 224,
     240, 128, 240, 128, 240,
     240, 128, 240, 128, 128 >>

---------------------------------------------------------------------------
(* Bitwise operators of Go on unsigned values *)

RECURSIVE BitAnd(_, _), BitOr(_, _), BitXor(_, _)
BitAnd(a, b) ==
  IF a = 0 \/ b = 0 THEN 0
  ELSE (a % 2) * (b % 2) + 2 * BitAnd(a \div 2, b \div 2)
BitOr(a, b) ==
  IF a = 0 THEN b ELSE IF b = 0 THEN a
  ELSE (IF a % 2 = 1 \/ b % 2 = 1 THEN 1 ELSE 0) + 2 * BitOr(a \div 2, b \div 2)
BitXor(a, b) ==
  IF a = 0 THEN b ELSE IF b = 0 THEN a
  ELSE ((a + b) % 2) + 2 * BitXor(a \div 2, b \div 2)

RECURSIVE Pow2(_)
Pow2(k) == IF k = 0 THEN 1 ELSE 2 * Pow2(k - 1)
ShiftRight(a, k) == a \div Pow2(k)

---------------------------------------------------------------------------
(* The result of an operation: the machine, and the faulting access if the
   operation panicked *)

NoFault == [arr |-> "none", idx |-> 0]
Ok(c) == [c |-> c, fault |-> NoFault]
Panic(c, arr, idx) == [c |-> c, fault |-> [arr |-> arr, idx |-> idx]]

(* Memory[a], and Memory[a] = v, for a in 0..MemorySize-1 *)
Rd(mem, a) == IF a \in DOMAIN mem THEN mem[a] ELSE 0
Wr(mem, a, v) ==
  [b \in (IF v = 0 THEN DOMAIN mem \ {a} ELSE DOMAIN mem \cup {a}) |->
     IF b = a THEN v ELSE mem[b]]

(* A []byte: len(b), b[i] for i in 0..len(b)-1, and the slice of a tuple *)
SliceLen(b) == b.len
SliceAt(b, i) == IF i \in DOMAIN b.data THEN b.data[i] ELSE 0
Slice(seq) ==
  [len |-> Len(seq),
   data |-> [i \in {j \in 0..Len(seq)-1 : seq[j + 1] # 0} |-> seq[i + 1]]]

(* New: zeroed struct, font set copied to the start of memory *)
New ==
  [ V        |-> [r \in 0..RegisterCount-1 |-> 0],
    I        |-> 0,
    PC       |-> ProgramStartAddr,
    SP       |-> 0,
    DT       |-> 0,
    ST       |-> 0,
    Memory   |-> [a \in {b \in 0..Len(fontSet)-1 : fontSet[b + 1] # 0} |->
                    fontSet[a + 1]],
    Stack    |-> [s \in 0..StackSize-1 |-> 0],
    Display  |-> {},
    Keys     |-> [k \in 0..KeyCount-1 |-> FALSE],
    DrawFlag |-> TRUE ]

(* LoadROMFromBytes: clear memory from FontEndAddr up, then the size check,
   then the copy and the reset. err is the returned error. *)
ClearMemoryNot(c) == c

ClearMemory(c) ==
  [c EXCEPT !.Memory = [a \in {b \in DOMAIN c.Memory : b < FontEndAddr} |->
                          c.Memory[a]]]

(* the copy loop: Memory[ProgramStartAddr+i] = rom[i] for every i *)
CopyROM(mem, bytes) ==
  LET set == {ProgramStartAddr + i : i \in DOMAIN bytes.data}
      kept == {a \in DOMAIN mem :
                 a < ProgramStartAddr \/ a >= ProgramStartAddr + SliceLen(bytes)}
  IN [a \in kept \cup set |->
        IF a \in set THEN SliceAt(bytes, a - ProgramStartAddr) ELSE mem[a]]

(* a load that copies the program to where PC points *)
LoadROMFromBytesAtPC(c, bytes) ==
  LET cleared == ClearMemory(c)
      set == {c.PC + i : i \in DOMAIN bytes.data}
  IN IF SliceLen(bytes) > MemorySize - ProgramStartAddr
     THEN [c |-> cleared, err |-> TRUE]
     ELSE [c |-> [cleared EXCEPT
                    !.Memory = [a \in DOMAIN cleared.Memory \cup set |->
                                  IF a \in set THEN SliceAt(bytes, a - c.PC)
                                  ELSE cleared.Memory[a]],
                    !.PC = ProgramStartAddr,
                    !.I = 0,
                    !.SP = 0,
                    !.DT = 0,
                    !.ST = 0,
                    !.DrawFlag = TRUE,
                    !.Display = {},
                    !.V = [r \in 0..RegisterCount-1 |-> 0]],
           err |-> FALSE]

LoadROMFromBytes(c, bytes) ==
  LET cleared == ClearMemory(c)
      maxRomSize == MemorySize - ProgramStartAddr
  IN IF SliceLen(bytes) > maxRomSize
     THEN [c |-> cleared, err |-> TRUE]
     ELSE [c |-> [cleared EXCEPT
                    !.Memory = CopyROM(cleared.Memory, bytes),
                    !.PC = ProgramStartAddr,
                    !.I = 0,
                    !.SP = 0,
                    !.DT = 0,
                    !.ST = 0,
                    !.DrawFlag = TRUE,
                    !.Display = {},
                    !.V = [r \in 0..RegisterCount-1 |-> 0]],
           err |-> FALSE]

(* a decrement without the test for 0 *)
UpdateTimersWrap(c) ==
  [c EXCEPT !.DT = Byte(@ - 1), !.ST = Byte(@ - 1)]

(* UpdateTimers *)
UpdateTimers(c) ==
  [c EXCEPT !.DT = IF @ > 0 THEN @ - 1 ELSE @,
            !.ST = IF @ > 0 THEN @ - 1 ELSE @]

---------------------------------------------------------------------------
(* EmulateCycle: the fields of the 16-bit opcode *)

OpNibble(opcode) == opcode \div 4096
OpX(opcode) == (opcode \div 256) % 16
OpY(opcode) == (opcode \div 16) % 16
OpN(opcode) == opcode % 16
OpKK(opcode) == opcode % 256
OpNNN(opcode) == opcode % 4096

SkipIf(c, cond) == IF cond THEN [c EXCEPT !.PC = U16(@ + InstructionSize)] ELSE c

(* 00E0 CLS *)
ClearScreen(c) ==
  [c EXCEPT !.Display = {}, !.DrawFlag = TRUE]

(* a return that reads the slot SP points at and decrements afterwards *)
ReturnTop(c) ==
  IF c.SP >= StackSize THEN Panic(c, "Stack", c.SP)
  ELSE Ok([c EXCEPT !.PC = c.Stack[c.SP], !.SP = Byte(@ - 1)])

(* 00EE RET: SP is a byte, so SP-- wraps from 0 to 255; then Stack[SP] *)
Return(c) ==
  LET sp == Byte(c.SP - 1)
      c1 == [c EXCEPT !.SP = sp]
  IN IF sp >= StackSize THEN Panic(c1, "Stack", sp)
     ELSE Ok([c1 EXCEPT !.PC = c1.Stack[sp]])

(* 2nnn CALL: Stack[SP] = PC comes first *)
Call(c, opcode) ==
  IF c.SP >= StackSize THEN Panic(c, "Stack", c.SP)
  ELSE Ok([c EXCEPT !.Stack[c.SP] = c.PC,
                    !.SP = Byte(@ + 1),
                    !.PC = OpNNN(opcode)])

(* 8xy4 ADD Vx, Vy: the flag is written first, the sum last *)
AddXY(c, x, y) ==
  LET sum == c.V[x] + c.V[y]
      c1 == [c EXCEPT !.V[VFRegister] = IF sum > ByteMax THEN 1 ELSE 0]
  IN [c1 EXCEPT !.V[x] = Byte(sum)]

(* 8xy5 SUB Vx, Vy: the flag is written first, then Vx -= Vy reads both again *)
SubXY(c, x, y) ==
  LET c1 == [c EXCEPT !.V[VFRegister] = IF c.V[x] > c.V[y] THEN 1 ELSE 0]
  IN [c1 EXCEPT !.V[x] = Byte(c1.V[x] - c1.V[y])]

(* 8xy6 SHR Vx *)
ShrX(c, x) ==
  LET c1 == [c EXCEPT !.V[VFRegister] = BitAnd(c.V[x], 1)]
  IN [c1 EXCEPT !.V[x] = ShiftRight(c1.V[x], 1)]

(* 8xy7 SUBN Vx, Vy *)
SubnXY(c, x, y) ==
  LET c1 == [c EXCEPT !.V[VFRegister] = IF c.V[y] > c.V[x] THEN 1 ELSE 0]
  IN [c1 EXCEPT !.V[x] = Byte(c1.V[y] - c1.V[x])]

(* 8xyE SHL Vx *)
ShlX(c, x) ==
  LET c1 == [c EXCEPT !.V[VFRegister] = ShiftRight(c.V[x], 7)]
  IN [c1 EXCEPT !.V[x] = Byte(c1.V[x] * 2)]

(* The 8xyN group *)
ALU(c, opcode) ==
  LET x == OpX(opcode)
      y == OpY(opcode)
      n == OpN(opcode)
  IN CASE n = 0 -> [c EXCEPT !.V[x] = c.V[y]]
       [] n = 1 -> [c EXCEPT !.V[x] = BitOr(c.V[x], c.V[y])]
       [] n = 2 -> [c EXCEPT !.V[x] = BitAnd(c.V[x], c.V[y])]
       [] n = 3 -> [c EXCEPT !.V[x] = BitXor(c.V[x], c.V[y])]
       [] n = 4 -> AddXY(c, x, y)
       [] n = 5 -> SubXY(c, x, y)
       [] n = 6 -> ShrX(c, x)
       [] n = 7 -> SubnXY(c, x, y)
       [] n = 14 -> ShlX(c, x)
       [] OTHER -> c

(* Dxyn DRW: one set sprite bit: VF = 1 if the cell is set, and the cell is
   flipped *)
FlipPixelSetOnly(c, py, px) ==
  [c EXCEPT !.V[VFRegister] = IF <<py, px>> \in c.Display THEN 1 ELSE @,
            !.Display = @ \cup {<<py, px>>}]

FlipPixel(c, py, px) ==
  [c EXCEPT !.V[VFRegister] = IF <<py, px>> \in c.Display THEN 1 ELSE @,
            !.Display = IF <<py, px>> \in @ THEN @ \ {<<py, px>>}
                                            ELSE @ \cup {<<py, px>>}]

(* the inner loop over the 8 columns of one sprite row *)
RECURSIVE DrawColsWrap(_, _, _, _, _, _)
DrawColsWrap(c, x, y, row, sprite, col) ==
  IF col >= SpriteWidth THEN c
  ELSE LET c1 == IF BitAnd(sprite, ShiftRight(SpriteLeftBit, col)) # 0
                 THEN FlipPixel(c, y + row, (x + col) % DisplayWidth)
                 ELSE c
       IN DrawColsWrap(c1, x, y, row, sprite, col + 1)

RECURSIVE DrawCols(_, _, _, _, _, _)
DrawCols(c, x, y, row, sprite, col) ==
  IF col >= SpriteWidth \/ x + col >= DisplayWidth THEN c
  ELSE LET c1 == IF BitAnd(sprite, ShiftRight(SpriteLeftBit, col)) # 0
                 THEN FlipPixel(c, y + row, x + col)
                 ELSE c
       IN DrawCols(c1, x, y, row, sprite, col + 1)

(* the outer loop over the rows; Memory[I+row] is indexed by a uint16 sum *)
RECURSIVE DrawRows(_, _, _, _, _)
DrawRows(c, x, y, height, row) ==
  IF row >= height \/ y + row >= DisplayHeight THEN Ok(c)
  ELSE LET addr == U16(c.I + row)
       IN IF addr >= MemorySize THEN Panic(c, "Memory", addr)
          ELSE DrawRows(DrawCols(c, x, y, row, Rd(c.Memory, addr), 0),
                        x, y, height, row + 1)

DrawSprite(c, opcode) ==
  LET x == c.V[OpX(opcode)] % DisplayWidth
      y == c.V[OpY(opcode)] % DisplayHeight
      height == OpN(opcode)
      r == DrawRows([c EXCEPT !.V[VFRegister] = 0], x, y, height, 0)
  IN IF r.fault # NoFault THEN r
     ELSE Ok([r.c EXCEPT !.DrawFlag = TRUE])

(* Ex9E SKP / ExA1 SKNP: Keys is indexed by the whole byte Vx *)
KeySkip(c, opcode) ==
  LET x == OpX(opcode)
      kk == OpKK(opcode)
  IN IF kk \notin {158, 161} THEN Ok(c)
     ELSE IF c.V[x] >= KeyCount THEN Panic(c, "Keys", c.V[x])
     ELSE IF kk = 158 THEN Ok(SkipIf(c, c.Keys[c.V[x]]))
     ELSE Ok(SkipIf(c, ~c.Keys[c.V[x]]))

(* Fx0A LD Vx, K: the first pressed key in ascending order, or rewind PC *)
WaitKeyNoRewind(c, x) ==
  LET pressed == {i \in 0..KeyCount-1 : c.Keys[i]}
  IN IF pressed # {}
     THEN [c EXCEPT !.V[x] = CHOOSE i \in pressed : \A j \in pressed : i <= j]
     ELSE c

WaitKey(c, x) ==
  LET pressed == {i \in 0..KeyCount-1 : c.Keys[i]}
  IN IF pressed # {}
     THEN [c EXCEPT !.V[x] = CHOOSE i \in pressed : \A j \in pressed : i <= j]
     ELSE [c EXCEPT !.PC = U16(@ - InstructionSize)]

(* Fx1E ADD I, Vx: the comparison is on the uint16 sum *)
AddToIndex(c, x) ==
  LET c1 == [c EXCEPT !.V[VFRegister] =
                        IF U16(c.I + c.V[x]) > AddressMax THEN 1 ELSE 0]
  IN [c1 EXCEPT !.I = U16(@ + c1.V[x])]

(* Fx29 LD F, Vx: the product is a byte product, widened afterwards *)
FontSprite(c, x) == [c EXCEPT !.I = Byte(c.V[x] * FontSpriteHeight)]

(* a BCD whose tens digit is not reduced mod 10 *)
StoreBCDTens(c, x) ==
  LET a0 == c.I
      a1 == U16(c.I + 1)
      a2 == U16(c.I + 2)
  IN IF a0 >= MemorySize THEN Panic(c, "Memory", a0)
     ELSE LET c1 == [c EXCEPT !.Memory = Wr(@, a0, c.V[x] \div Hundreds)]
          IN IF a1 >= MemorySize THEN Panic(c1, "Memory", a1)
             ELSE LET c2 == [c1 EXCEPT !.Memory = Wr(@, a1, c.V[x] \div Tens)]
                  IN IF a2 >= MemorySize THEN Panic(c2, "Memory", a2)
                     ELSE Ok([c2 EXCEPT !.Memory = Wr(@, a2, c.V[x] % Tens)])

(* Fx33 LD B, Vx: three stores, each one indexed by a uint16 sum *)
StoreBCD(c, x) ==
  LET a0 == c.I
      a1 == U16(c.I + 1)
      a2 == U16(c.I + 2)
  IN IF a0 >= MemorySize THEN Panic(c, "Memory", a0)
     ELSE LET c1 == [c EXCEPT !.Memory = Wr(@, a0, c.V[x] \div Hundreds)]
          IN IF a1 >= MemorySize THEN Panic(c1, "Memory", a1)
             ELSE LET c2 == [c1 EXCEPT !.Memory = Wr(@, a1, (c.V[x] \div Tens) % Tens)]
                  IN IF a2 >= MemorySize THEN Panic(c2, "Memory", a2)
                     ELSE Ok([c2 EXCEPT !.Memory = Wr(@, a2, c.V[x] % Tens)])

(* a store loop that stops one register short: i < x for i <= x *)
RECURSIVE StoreRegsShort(_, _, _)
StoreRegsShort(c, x, i) ==
  IF i >= x THEN Ok(c)
  ELSE LET addr == U16(c.I + i)
       IN IF addr >= MemorySize THEN Panic(c, "Memory", addr)
          ELSE StoreRegsShort([c EXCEPT !.Memory = Wr(@, addr, c.V[i])], x, i + 1)

(* Fx55 LD [I], Vx *)
RECURSIVE StoreRegs(_, _, _)
StoreRegs(c, x, i) ==
  IF i > x THEN Ok(c)
  ELSE LET addr == U16(c.I + i)
       IN IF addr >= MemorySize THEN Panic(c, "Memory", addr)
          ELSE StoreRegs([c EXCEPT !.Memory = Wr(@, addr, c.V[i])], x, i + 1)

(* Fx65 LD Vx, [I] *)
RECURSIVE LoadRegs(_, _, _)
LoadRegs(c, x, i) ==
  IF i > x THEN Ok(c)
  ELSE LET addr == U16(c.I + i)
       IN IF addr >= MemorySize THEN Panic(c, "Memory", addr)
          ELSE LoadRegs([c EXCEPT !.V[i] = Rd(c.Memory, addr)], x, i + 1)

(* The FxKK group *)
Misc(c, opcode) ==
  LET x == OpX(opcode)
      kk == OpKK(opcode)
  IN CASE kk = 7 -> Ok([c EXCEPT !.V[x] = c.DT])
       [] kk = 10 -> Ok(WaitKey(c, x))
       [] kk = 21 -> Ok([c EXCEPT !.DT = c.V[x]])
       [] kk = 24 -> Ok([c EXCEPT !.ST = c.V[x]])
       [] kk = 30 -> Ok(AddToIndex(c, x))
       [] kk = 41 -> Ok(FontSprite(c, x))
       [] kk = 51 -> StoreBCD(c, x)
       [] kk = 85 -> StoreRegs(c, x, 0)
       [] kk = 101 -> LoadRegs(c, x, 0)
       [] OTHER -> Ok(c)

(* Decode and execute; c already has PC advanced. rnd is rand.Intn(256). *)
Execute(c, opcode, rnd) ==
  LET x == OpX(opcode)
      y == OpY(opcode)
      kk == OpKK(opcode)
      t == OpNibble(opcode)
  IN CASE t = 0 -> (IF kk = 224 THEN Ok(ClearScreen(c))
                    ELSE IF kk = 238 THEN Return(c)
                    ELSE Ok(c))
       [] t = 1 -> Ok([c EXCEPT !.PC = OpNNN(opcode)])
       [] t = 2 -> Call(c, opcode)
       [] t = 3 -> Ok(SkipIf(c, c.V[x] = kk))
       [] t = 4 -> Ok(SkipIf(c, c.V[x] # kk))
       [] t = 5 -> Ok(SkipIf(c, c.V[x] = c.V[y]))
       [] t = 6 -> Ok([c EXCEPT !.V[x] = kk])
       [] t = 7 -> Ok([c EXCEPT !.V[x] = Byte(@ + kk)])
       [] t = 8 -> Ok(ALU(c, opcode))
       [] t = 9 -> Ok(SkipIf(c, c.V[x] # c.V[y]))
       [] t = 10 -> Ok([c EXCEPT !.I = OpNNN(opcode)])
       [] t = 11 -> Ok([c EXCEPT !.PC = OpNNN(opcode) + c.V[0]])
       [] t = 12 -> Ok([c EXCEPT !.V[x] = BitAnd(rnd, kk)])
       [] t = 13 -> DrawSprite(c, opcode)
       [] t = 14 -> KeySkip(c, opcode)
       [] t = 15 -> Misc(c, opcode)

(* The fetch: Memory[PC] and Memory[PC+1], both indexed by uint16 values *)
CanFetch(c) == c.PC < MemorySize /\ U16(c.PC + 1) < MemorySize
Fetch(c) == Rd(c.Memory, c.PC) * 256 + Rd(c.Memory, U16(c.PC + 1))

EmulateCycle(c, rnd) ==
  IF c.PC >= MemorySize THEN Panic(c, "Memory", c.PC)
  ELSE IF U16(c.PC + 1) >= MemorySize THEN Panic(c, "Memory", U16(c.PC + 1))
  ELSE Execute([c EXCEPT !.PC = U16(@ + InstructionSize)], Fetch(c), rnd)

(* renderer Update: every key of the keypad is written from the keyboard *)
SampleKeys(c, pressed) ==
  [c EXCEPT !.Keys = [k \in 0..KeyCount-1 |-> k \in pressed]]

---------------------------------------------------------------------------
(* Constants of package renderer *)

CyclesPerUpdate == 10
ColourR == 0
ColourG == 1
ColourB == 2
ColourA == 3
ColourOn == 255
ColourOff == 0
BytesPerPixel == 4

(* renderer.New: make([]byte, ...), every byte 0 *)
NewPixelBuffer == {}

(* the index of the first byte of the pixel of row y, column x *)
PixelPos(y, x) == (y * DisplayWidth + x) * BytesPerPixel

(* an updatePixelBuffer that writes the pixels that are set and leaves the
   others as they are *)
updatePixelBufferSetOnly(c, buf) ==
  buf \cup
  { <<PixelPos(cell[1], cell[2]) + ch, ColourOn>> :
      cell \in c.Display, ch \in {ColourR, ColourG, ColourB} } \cup
  { <<PixelPos(y, x) + ColourA, ByteMax>> :
      y \in 0..(DisplayHeight - 1), x \in 0..(DisplayWidth - 1) }

(* updatePixelBuffer: every pixel's four bytes are written, so nothing of
   the old buffer is left *)
updatePixelBuffer(c, buf) ==
  LET colour(y, x) == IF <<y, x>> \in c.Display THEN ColourOn ELSE ColourOff
      written ==
        UNION { { <<PixelPos(y, x) + ColourR, colour(y, x)>>,
                  <<PixelPos(y, x) + ColourG, colour(y, x)>>,
                  <<PixelPos(y, x) + ColourB, colour(y, x)>>,
                  <<PixelPos(y, x) + ColourA, ByteMax>> } :
                y \in 0..(DisplayHeight - 1), x \in 0..(DisplayWidth - 1) }
  IN { e \in written : e[2] # 0 }

(* the head of Draw: if DrawFlag, updatePixelBuffer and DrawFlag = false;
   the rest of Draw copies the buffer to the screen *)
Draw(c, buf) ==
  IF c.DrawFlag
  THEN [c |-> [c EXCEPT !.DrawFlag = FALSE], buf |-> updatePixelBuffer(c, buf)]
  ELSE [c |-> c, buf |-> buf]

(* where the game loop stands: at is the next step of the frame (the
   dropped-file check that opens Update, the key sampling, a cycle or a
   timer tick of the loop, Draw, or Ended once Update has returned an
   error), i the number of turns of the loop made in this Update *)
NewFrame == [at |-> "Update", i |-> 0]

(* The state: the fields of the one Chip8 value; the fault that ended the
   process (NoFault while it runs); lastOp, the last of New, LoadROMFromBytes
   and EmulateCycle to have been called, with the outcome of a load; and rom,
   the byte slice given to the last LoadROMFromBytes *)

(* the address of the k-th instruction (from 0) of a loaded program *)
At(k) == ProgramStartAddr + InstructionSize * k

Machine ==
  [ V |-> V, I |-> I, PC |-> PC, SP |-> SP, DT |-> DT, ST |-> ST,
    Memory |-> Memory, Stack |-> Stack, Display |-> Display, Keys |-> Keys,
    DrawFlag |-> DrawFlag ]

Becomes(c) ==
  /\ V' = c.V /\ I' = c.I /\ PC' = c.PC /\ SP' = c.SP /\ DT' = c.DT /\ ST' = c.ST
  /\ Memory' = c.Memory /\ Stack' = c.Stack /\ Display' = c.Display
  /\ Keys' = c.Keys /\ DrawFlag' = c.DrawFlag

Running == fault = NoFault

Init ==
  /\ V = New.V /\ I = New.I /\ PC = New.PC /\ SP = New.SP /\ DT = New.DT
  /\ ST = New.ST /\ Memory = New.Memory /\ Stack = New.Stack
  /\ Display = New.Display /\ Keys = New.Keys /\ DrawFlag = New.DrawFlag
  /\ fault = NoFault
  /\ lastOp = "New"
  /\ rom = Slice(<<>>)
  /\ PixelBuffer = NewPixelBuffer
  /\ frame = NewFrame

(* a call of LoadROMFromBytes(bytes) *)
CallLoad(bytes) ==
  /\ Running
  /\ LET r == LoadROMFromBytes(Machine, bytes)
     IN /\ Becomes(r.c)
        /\ lastOp' = IF r.err THEN "LoadErr" ELSE "LoadOk"
  /\ rom' = bytes
  /\ UNCHANGED fault

(* rand.Intn(256) is drawn only by Cxkk *)
RandValues(c) ==
  IF CanFetch(c) /\ OpNibble(Fetch(c)) = 12 THEN 0..ByteMax ELSE {0}

(* a call of EmulateCycle(); cycles are run while PC is below the end of the
   first MaxProgram instructions of the program area, or at the last two
   instructions of memory or beyond, not through the memory between *)
MaxProgram == 8
InWindow(pc) == pc < At(MaxProgram) \/ pc >= MemorySize - 2 * InstructionSize

CallEmulateCycle ==
  /\ Running
  /\ InWindow(PC)
  /\ \E rnd \in RandValues(Machine) :
       LET r == EmulateCycle(Machine, rnd)
       IN /\ Becomes(r.c)
          /\ fault' = r.fault
  /\ lastOp' = "Cycle"
  /\ UNCHANGED rom

(* a call of UpdateTimers() *)
CallUpdateTimers ==
  /\ Running
  /\ Becomes(UpdateTimers(Machine))
  /\ UNCHANGED <<fault, lastOp, rom>>

(* the key sampling of the renderer's Update *)
WriteKeys(pressed) ==
  /\ Running
  /\ Becomes(SampleKeys(Machine, pressed))
  /\ UNCHANGED <<fault, lastOp, rom>>

---------------------------------------------------------------------------
(* The inputs: ROM images, as the byte slices handed to LoadROMFromBytes,
   and the sets of keys held down when the renderer samples the keyboard *)

RECURSIVE Bytes(_)
Bytes(ops) ==
  IF ops = <<>> THEN <<>>
  ELSE <<Head(ops) \div 256, Head(ops) % 256>> \o Bytes(Tail(ops))
Asm(ops) == Slice(Bytes(ops))

(* jump to itself: the program stays at instruction k *)
Halt(k) == \h1000 + At(k)

MaxRomSize == MemorySize - ProgramStartAddr

(* no byte at all: the program area is empty *)
RomEmpty == Slice(<<>>)
(* one byte: memory reads 12 00, a jump to 0x200 *)
RomOneByte == Slice(<<\h12>>)
(* I = 0; V0 = 255; BCD of V0 to memory[0..2], inside the font table *)
RomBCDFont == Asm(<<\hA000, \h60FF, \hF033, Halt(3)>>)
(* a subroutine that calls itself *)
RomCallSelf == Asm(<<\h2200>>)
(* a return with nothing on the stack *)
RomReturn == Asm(<<\h00EE>>)
(* a call, the return from it, and a stop *)
RomCallReturn == Asm(<<\h2204, Halt(1), \h00EE>>)
(* wait for a key into V3 *)
RomWaitKey == Asm(<<\hF30A, Halt(1)>>)
(* draw the font glyph 0 at (0, 0) *)
RomGlyph == Asm(<<\hD005, Halt(1)>>)
(* V0 = MaxTimer; DT = V0; ST = V0 *)
MaxTimer == 2
RomTimers == Asm(<<\h6000 + MaxTimer, \hF015, \hF018, Halt(3)>>)
(* jump to 0xFFC and run off the end of memory *)
RomRunOff == Asm(<<\h1FFC>>)
(* n bytes: a stopped program, zeroes, and a last byte that is not 0 *)
RomFill(n) == [len |-> n, data |-> [i \in {0, n - 1} |-> IF i = 0 THEN \h12 ELSE \hAB]]

(* draw the font glyph 0 at (0, 0); then 0x01E0 *)
RomClsAlias == Asm(<<\hD005, \h01E0, Halt(2)>>)

ROMs ==
  { RomEmpty, RomOneByte, RomBCDFont, RomCallSelf, RomReturn, RomCallReturn, RomWaitKey,
    RomGlyph, RomTimers, RomRunOff, RomFill(MaxRomSize), RomFill(MaxRomSize + 1),
    RomClsAlias }

KeySets == { {}, {0}, {9, 15} }

(* Operand sweep for the 8xyN group: Vx = a; Vy = b; 8xyN; stop *)
MaxOperand == 3
Operands == (0..MaxOperand) \cup ((ByteMax - MaxOperand)..ByteMax)
OperandRegs == {0, 1, 15}
ALUOps == {4, 5, 6, 7}

ALURom(n, x, y, a, b) ==
  Asm(<<\h6000 + 256 * x + a, \h6000 + 256 * y + b,
        \h8000 + 256 * x + 16 * y + n, Halt(3)>>)

ALURoms ==
  { ALURom(n, x, y, a, b) :
      n \in ALUOps, x \in OperandRegs, y \in OperandRegs,
      a \in Operands, b \in Operands }

(* Sprite drawing: Vx = vx; V1 = vy; optionally the font glyph 0 drawn there
   first; I = the sprite; the same Dx1n twice; stop; the sprite's n rows *)
MaxRows == 2
SpriteXs == {0, 60, 124}
SpriteYs == {0, 30, 95}
SpriteRows == {\hFF, \h81}
SpriteRegs == {0, 15}

DrawRom(xr, vx, vy, n, bits, pre) ==
  LET k == IF pre THEN 8 ELSE 6
      draw == \hD000 + 256 * xr + 16 * 1 + n
      head == <<\h6000 + 256 * xr + vx, \h6100 + vy>>
      first == IF pre THEN <<\hA000, \hD005 + 256 * xr + 16 * 1>> ELSE <<>>
      body == <<\hA000 + At(k), draw, draw, Halt(k - 1)>>
  IN Slice(Bytes(head \o first \o body) \o [i \in 1..n |-> bits])

DrawRoms ==
  { DrawRom(xr, vx, vy, n, bits, pre) :
      xr \in SpriteRegs, vx \in SpriteXs, vy \in SpriteYs, n \in 1..MaxRows,
      bits \in SpriteRows, pre \in BOOLEAN }

(* Fx33: I = i; Vx = v; BCD of Vx; stop *)
BCDValues == Operands \cup {9, 10, 99, 100, 157}
BCDAddrs == {\h300, \hFFD, \hFFE}

BCDRom(x, v, i) ==
  Asm(<<\hA000 + i, \h6000 + 256 * x + v, \hF033 + 256 * x, Halt(3)>>)

BCDRoms == { BCDRom(x, v, i) : x \in OperandRegs, v \in BCDValues, i \in BCDAddrs }

(* Fx29: Vx = v; I = the glyph of Vx; stop *)
GlyphValues == Operands \cup {15, 51, 52}

FontRom(x, v) == Asm(<<\h6000 + 256 * x + v, \hF029 + 256 * x, Halt(2)>>)

FontRoms == { FontRom(x, v) : x \in OperandRegs, v \in GlyphValues }

(* Fx1E: Vx = v; I = i; I += Vx; stop *)
IndexValues == {0, \hF00, \hFFF}

AddIRom(x, v, i) ==
  Asm(<<\h6000 + 256 * x + v, \hA000 + i, \hF01E + 256 * x, Halt(3)>>)

AddIRoms == { AddIRom(x, v, i) : x \in OperandRegs, v \in Operands, i \in IndexValues }

(* V0 = 255; I = 0xFFF; then I += V0 241 times, counted in V1: the last
   of them takes I past 0xFFFF *)
RomIndexLoop ==
  Asm(<<\h60FF, \hAFFF, \hF01E, \h7101, \h31F1, \h1000 + At(2), Halt(6)>>)

(* one opcode outside the instruction set, then stops at the next two
   instructions *)
UndefinedOps ==
  {\h0123, \h01E0, \h5011, \h5012, \h9011, \h9101, \h8008, \h800F, \hE000,
   \hE09F, \hF000, \hF0FF}

UndefRom(op) == Asm(<<op, Halt(1), Halt(2)>>)

UndefRoms == { UndefRom(op) : op \in UndefinedOps }

(* V0 = 16; skip if the key V0 is down *)
RomKeyRange == Asm(<<\h6000 + KeyCount, \hE09E, Halt(2)>>)

(* n nested calls and the n returns from them: the first call from the
   first instruction, every further one from inside the subroutine, which
   counts its activations in V0 and calls itself until V0 = n *)
NestRom(n) ==
  Asm(<<\h2000 + At(2), Halt(1),
        \h7001, \h3000 + n, \h2000 + At(2), \h00EE>>)

NestRoms == { NestRom(n) : n \in 1..StackSize }

(* Fx55 and Fx65 one after the other, in either order: V0, V1 and VF set;
   I = i; the two; stop *)
RegsAddrs == {0, At(0), \hFF0, \hFFF}
RegsOrders == {<<\h55, \h65>>, <<\h65, \h55>>}

RegsRom(x, i, ord) ==
  Asm(<<\h60A1, \h61B2, \h6FC3, \hA000 + i,
        \hF000 + 256 * x + ord[1], \hF000 + 256 * x + ord[2], Halt(6)>>)

RegsRoms == { RegsRom(x, i, ord) : x \in OperandRegs, i \in RegsAddrs, ord \in RegsOrders }

BootROMs ==
  ALURoms \cup DrawRoms \cup BCDRoms \cup FontRoms \cup AddIRoms \cup
  {RomIndexLoop} \cup UndefRoms \cup {RomKeyRange} \cup
  NestRoms \cup RegsRoms

---------------------------------------------------------------------------
(* the programs dropped on the window in the game loop *)
(* draw the font glyph 0 at (0, 0); wait for a key; clear the screen *)
RomWaitClear == Asm(<<\hD005, \hF00A, \h00E0, Halt(3)>>)
(* 3584 bytes: I = 0xFFF; wait for a key; a sprite of two rows drawn from
   I, the first of them the last byte of the program, the second past the
   end of memory *)
RomDrawOffEnd ==
  [len |-> MaxRomSize,
   data |-> [i \in (0..5) \cup {MaxRomSize - 1} |->
               IF i = MaxRomSize - 1 THEN \hAB
               ELSE Bytes(<<\hAFFF, \hF00A, \hD002>>)[i + 1]]]

FrameROMs ==
  { RomGlyph, RomWaitClear, RomClsAlias, RomDrawOffEnd, RomFill(MaxRomSize + 1) }

(* Spec: the machine driven through its API in any order, as the renderer
   may: a ROM dropped on the window at any time, keys sampled, cycles run
   and timers ticked *)

Load == \E bytes \in ROMs : CallLoad(bytes)
Sample == \E pressed \in KeySets : WriteKeys(pressed)

Next ==
  \/ Load /\ UNCHANGED host
  \/ CallEmulateCycle /\ UNCHANGED host
  \/ CallUpdateTimers /\ UNCHANGED host
  \/ Sample /\ UNCHANGED host

Spec == Init /\ [][Next]_vars

(* SpecBoot: main's order without a dropped file: New, one LoadROM, then
   cycles *)
BootLoad == lastOp = "New" /\ \E bytes \in BootROMs : CallLoad(bytes)

NextBoot ==
  \/ BootLoad /\ UNCHANGED host
  \/ CallEmulateCycle /\ UNCHANGED host

SpecBoot == Init /\ [][NextBoot]_vars

(* SpecFrame: the game loop, one thread: Update (checkForDroppedFiles, the
   key sampling, the Escape test, CyclesPerUpdate times EmulateCycle and
   UpdateTimers), then Draw, then the next Update *)
FrameTo(at, i) == frame' = [at |-> at, i |-> i]

(* checkForDroppedFiles with a file dropped: the load, accepted or not *)
FrameDrop ==
  /\ frame.at = "Update"
  /\ \E bytes \in FrameROMs : CallLoad(bytes)
  /\ FrameTo("Keys", 0)
  /\ UNCHANGED PixelBuffer

(* checkForDroppedFiles with nothing dropped *)
FrameNoDrop ==
  /\ frame.at = "Update"
  /\ Running
  /\ FrameTo("Keys", 0)
  /\ UNCHANGED <<chip, fault, lastOp, rom, PixelBuffer>>

(* the key sampling; Escape just pressed ends the game *)
FrameKeys ==
  /\ frame.at = "Keys"
  /\ \E pressed \in KeySets : WriteKeys(pressed)
  /\ \E escape \in BOOLEAN : FrameTo(IF escape THEN "Ended" ELSE "Cycle", 0)
  /\ UNCHANGED PixelBuffer

FrameCycle ==
  /\ frame.at = "Cycle"
  /\ CallEmulateCycle
  /\ FrameTo("Timers", frame.i)
  /\ UNCHANGED PixelBuffer

FrameTimers ==
  /\ frame.at = "Timers"
  /\ CallUpdateTimers
  /\ IF frame.i + 1 < CyclesPerUpdate
     THEN FrameTo("Cycle", frame.i + 1)
     ELSE FrameTo("Draw", 0)
  /\ UNCHANGED PixelBuffer

FrameDraw ==
  /\ frame.at = "Draw"
  /\ Running
  /\ LET r == Draw(Machine, PixelBuffer)
     IN /\ Becomes(r.c)
        /\ PixelBuffer' = r.buf
  /\ FrameTo("Update", 0)
  /\ UNCHANGED <<fault, lastOp, rom>>

NextFrame ==
  FrameDrop \/ FrameNoDrop \/ FrameKeys \/ FrameCycle \/ FrameTimers \/ FrameDraw

SpecFrame == Init /\ [][NextFrame]_vars

---------------------------------------------------------------------------
(* Claims about LoadROMFromBytes, checked under Spec *)

Loaded == lastOp \in {"LoadOk", "LoadErr"}

(* C1: a load of at most 3584 bytes succeeds and leaves PC = 512, every
   register, I, SP, DT and ST 0, the display all false, the bytes of the ROM
   at 512.. and 0 in every byte after them up to 4095. (lastOp stays LoadOk
   until the next cycle: ticking timers that are 0 and sampling keys change
   none of these.) *)
LoadResetsAndCopies ==
  (Loaded /\ SliceLen(rom) <= 3584) =>
     /\ lastOp = "LoadOk"
     /\ PC = 512
     /\ \A r \in 0..15 : V[r] = 0
     /\ I = 0 /\ SP = 0 /\ DT = 0 /\ ST = 0
     /\ Display = {}
     /\ \A a \in 512..4095 :
          Rd(Memory, a) = IF a < 512 + SliceLen(rom) THEN SliceAt(rom, a - 512) ELSE 0

(* a ROM of exactly 3584 bytes loaded over what an earlier program left *)
LoadedFullSizeROM ==
  /\ lastOp = "LoadOk"
  /\ SliceLen(rom) = 3584
  /\ Rd(Memory, 4095) = \hAB
  /\ Stack[0] # 0

(* C2: a load of more than 3584 bytes returns the error and changes nothing
   of the machine *)
RejectedLoadChangesNothing ==
  [][ (\E bytes \in ROMs : SliceLen(bytes) > 3584 /\ CallLoad(bytes))
        => (lastOp' = "LoadErr" /\ UNCHANGED chip) ]_vars

(* C3: after every load, accepted or rejected, memory[0..80) is the font
   table *)
FontIntactAfterLoad ==
  Loaded => \A a \in 0..79 : Rd(Memory, a) = fontSet[a + 1]

(* C4: no call at SP = 16 and no return at SP = 0 faults on the stack *)
StackNeverFaults == fault.arr # "Stack"

---------------------------------------------------------------------------
(* Claims about the 8xyN group, checked under SpecBoot: every cycle that
   executes the instruction, for the registers and operands of ALURoms *)

Executes(t, n) ==
  /\ CallEmulateCycle
  /\ CanFetch(Machine)
  /\ OpNibble(Fetch(Machine)) = t
  /\ OpN(Fetch(Machine)) = n

(* C5: 8xy4 leaves Vx = (a + b) mod 256 and VF = 1 if a + b > 255, else 0,
   for a = Vx and b = Vy before the cycle *)
AddSetsSumAndCarry ==
  [][ Executes(8, 4) =>
        LET x == OpX(Fetch(Machine))
            y == OpY(Fetch(Machine))
            a == V[x]
            b == V[y]
        IN /\ V'[x] = (a + b) % 256
           /\ V'[15] = IF a + b > 255 THEN 1 ELSE 0 ]_vars

(* C6: 8xy5 leaves Vx = (a - b) mod 256 and VF = 1 iff a > b; 8xy7 leaves
   Vx = (b - a) mod 256 and VF = 1 iff b > a *)
SubSetsDifferenceAndFlag ==
  [][ LET x == OpX(Fetch(Machine))
          y == OpY(Fetch(Machine))
          a == V[x]
          b == V[y]
      IN /\ Executes(8, 5) =>
              /\ V'[x] = (a - b) % 256
              /\ V'[15] = IF a > b THEN 1 ELSE 0
         /\ Executes(8, 7) =>
              /\ V'[x] = (b - a) % 256
              /\ V'[15] = IF b > a THEN 1 ELSE 0 ]_vars

(* C7: 8xy6 leaves VF = the least-significant bit of a and Vx = a >> 1, for
   a = Vx before the cycle *)
ShiftRightSetsBitAndHalf ==
  [][ Executes(8, 6) =>
        LET x == OpX(Fetch(Machine))
            a == V[x]
        IN /\ V'[15] = a % 2
           /\ V'[x] = a \div 2 ]_vars

---------------------------------------------------------------------------
(* C8, checked under Spec: a cycle on Fx0A with no key pressed leaves PC and
   every register as they were; with a key pressed it leaves Vx = the lowest
   pressed key and PC 2 past the instruction *)
WaitKeyBlocksUntilKey ==
  [][ (/\ CallEmulateCycle
       /\ CanFetch(Machine)
       /\ OpNibble(Fetch(Machine)) = 15
       /\ OpKK(Fetch(Machine)) = 10) =>
        LET x == OpX(Fetch(Machine))
            pressed == {k \in 0..15 : Keys[k]}
        IN IF pressed = {}
           THEN PC' = PC /\ V' = V
           ELSE /\ V'[x] = CHOOSE k \in pressed : \A j \in pressed : k <= j
                /\ PC' = PC + 2 ]_vars

(* keys 9 and 15 are down and the wait has ended with V3 = 9 *)
WaitEndedWithLowestKey ==
  /\ rom = RomWaitKey
  /\ lastOp = "Cycle"
  /\ PC = At(1)
  /\ Keys[9] /\ Keys[15]
  /\ V[3] = 9

---------------------------------------------------------------------------
(* Claims about Dxyn, checked under SpecBoot: the programs of DrawRoms hold
   the same Dxyn twice in a row *)

(* bit k (0 = least significant) of a byte *)
BitOf(v, k) == (v \div Pow2(k)) % 2

(* the cells a Dxyn at PC would reach: the set bits of the sprite at I that
   land inside the grid from the origin (Vx mod 64, Vy mod 32) *)
SpriteCells(c) ==
  LET op == Fetch(c)
      ox == c.V[OpX(op)] % 64
      oy == c.V[OpY(op)] % 32
  IN { cell \in { <<oy + r, ox + k>> : r \in 0..(OpN(op) - 1), k \in 0..7 } :
         /\ cell[1] < 32
         /\ cell[2] < 64
         /\ BitOf(Rd(c.Memory, c.I + (cell[1] - oy)), 7 - (cell[2] - ox)) = 1 }

(* the machine is about to execute a Dxyn that is followed by the same Dxyn *)
AtDrawPair(c) ==
  /\ CanFetch(c)
  /\ OpNibble(Fetch(c)) = 13
  /\ CanFetch([c EXCEPT !.PC = c.PC + 2])
  /\ Fetch([c EXCEPT !.PC = c.PC + 2]) = Fetch(c)

(* C9: two cycles on the same Dxyn, with Vx and Vy the same for both, leave
   the display as it was before the first; from a cleared display the first
   leaves VF = 0, and the second VF = 1 if the sprite has a set bit inside
   the grid *)
DrawTwiceRestores ==
  (Running /\ AtDrawPair(Machine)) =>
    LET op == Fetch(Machine)
        one == EmulateCycle(Machine, 0)
        two == EmulateCycle(one.c, 0)
    IN (/\ one.fault = NoFault
        /\ two.fault = NoFault
        /\ one.c.V[OpX(op)] = V[OpX(op)]
        /\ one.c.V[OpY(op)] = V[OpY(op)]) =>
          /\ two.c.Display = Display
          /\ Display = {} =>
               /\ one.c.V[15] = 0
               /\ SpriteCells(Machine) # {} => two.c.V[15] = 1

(* the second draw of a pair has run over a display that was not empty: the
   glyph drawn before the pair is back, and the collision is flagged *)
DrewTwiceOverGlyph ==
  /\ lastOp = "Cycle"
  /\ Running
  /\ PC >= At(2)
  /\ AtDrawPair([Machine EXCEPT !.PC = PC - 4])
  /\ Display # {}
  /\ V[15] = 1

(* C10: a cycle on Dxyn changes only cells (row, col) with
   Vy mod 32 <= row < min(32, Vy mod 32 + n) and
   Vx mod 64 <= col < min(64, Vx mod 64 + 8) *)
DrawClips ==
  [][ (/\ CallEmulateCycle
       /\ CanFetch(Machine)
       /\ OpNibble(Fetch(Machine)) = 13) =>
        LET op == Fetch(Machine)
            ox == V[OpX(op)] % 64
            oy == V[OpY(op)] % 32
            n == OpN(op)
            rowEnd == IF oy + n < 32 THEN oy + n ELSE 32
            colEnd == IF ox + 8 < 64 THEN ox + 8 ELSE 64
        IN \A cell \in (Display' \ Display) \cup (Display \ Display') :
             /\ oy <= cell[1] /\ cell[1] < rowEnd
             /\ ox <= cell[2] /\ cell[2] < colEnd ]_vars

(* a two-row sprite of 0xFF drawn at (60, 31) on a cleared display: only
   row 31, columns 60..63 are set *)
DrewClippedAtCorner ==
  /\ lastOp = "Cycle"
  /\ Running
  /\ PC >= At(1)
  /\ Fetch([Machine EXCEPT !.PC = PC - 2]) = \hD012
  /\ V[0] = 60 /\ V[1] = 95
  /\ Display = {31} \X (60..63)


---------------------------------------------------------------------------
(* C11, checked under Spec: a call of UpdateTimers leaves DT = max(DT - 1, 0)
   and ST = max(ST - 1, 0), each from its own value, and changes nothing
   else; so k calls in a row leave a timer that held v at max(v - k, 0): at
   0 after v calls, and at 0 from then on *)
RECURSIVE Ticks(_, _)
Ticks(c, k) == IF k = 0 THEN c ELSE Ticks(UpdateTimers(c), k - 1)

FloorAtZero(n) == IF n > 0 THEN n ELSE 0

TimersCountDownToZero ==
  [][ CallUpdateTimers =>
        /\ DT' = FloorAtZero(DT - 1)
        /\ ST' = FloorAtZero(ST - 1)
        /\ UNCHANGED <<V, I, PC, SP, Memory, Stack, Display, Keys, DrawFlag>>
        /\ \A k \in 0..(MaxTimer + 1) :
             /\ Ticks(Machine, k).DT = FloorAtZero(DT - k)
             /\ Ticks(Machine, k).ST = FloorAtZero(ST - k) ]_vars

(* both timers were set to MaxTimer, the delay timer first; the delay timer
   has been ticked down to 0 and ticked again at 0, the sound timer once *)
TimersTickedApart ==
  /\ rom = RomTimers
  /\ Running
  /\ V[0] = MaxTimer
  /\ DT = 0
  /\ ST = MaxTimer - 1


---------------------------------------------------------------------------
(* C16, checked under Spec: in every reachable state, and for every image
   of at most 3584 bytes, loading the image twice in a row leaves exactly the
   state that loading it once leaves *)
LoadIsIdempotent ==
  \A bytes \in ROMs :
    SliceLen(bytes) <= MemorySize - ProgramStartAddr =>
      \A once \in {LoadROMFromBytes(Machine, bytes)} :
        /\ LoadROMFromBytes(once.c, bytes) = once
        /\ (lastOp = "LoadOk" /\ rom = bytes) => once.c = Machine

(* a program of the full 3584 bytes has been loaded over a machine that had
   run: a call was pending, and the load left the stack as it was *)
LoadedAgainOverRun ==
  /\ lastOp = "LoadOk"
  /\ SliceLen(rom) = MemorySize - ProgramStartAddr
  /\ Stack[0] # 0
  /\ Keys # [k \in 0..(KeyCount - 1) |-> FALSE]


---------------------------------------------------------------------------
(* Claims about the FxKK group, checked under SpecBoot *)

ExecutesMisc(x, kk) ==
  /\ CallEmulateCycle
  /\ CanFetch(Machine)
  /\ Fetch(Machine) = \hF000 + 256 * x + kk

Digits == 0..9

(* C12: Fx33 with I, I+1 and I+2 inside memory leaves Vx div 100 at
   memory[I], (Vx div 10) mod 10 at memory[I+1] and Vx mod 10 at memory[I+2];
   each is a decimal digit and 100, 10 and 1 times them add up to Vx; I and
   every register are unchanged *)
BCDStoresThreeDigits ==
  [][ \A x \in 0..(RegisterCount - 1) :
        (ExecutesMisc(x, \h33) /\ I + 2 < MemorySize) =>
          LET v == V[x]
              h == Rd(Memory', I)
              t == Rd(Memory', I + 1)
              u == Rd(Memory', I + 2)
          IN /\ h = v \div 100
             /\ t = (v \div 10) % 10
             /\ u = v % 10
             /\ {h, t, u} \subseteq Digits
             /\ 100 * h + 10 * t + u = v
             /\ I' = I
             /\ V' = V ]_vars

(* 157 has been stored as 1, 5, 7 in the last three bytes of memory *)
BCDStored157 ==
  /\ rom = BCDRom(0, 157, \hFFD)
  /\ lastOp = "Cycle"
  /\ PC = At(3)
  /\ <<Rd(Memory, \hFFD), Rd(Memory, \hFFE), Rd(Memory, \hFFF)>> = <<1, 5, 7>>


---------------------------------------------------------------------------
(* Claims about decoding, checked under SpecBoot *)

(* the opcodes outside the instruction set: 0nnn but 00E0 and 00EE, 5xyN
   and 9xyN with N not 0, 8xyN with N in 8..D or F, ExKK but Ex9E and ExA1,
   FxKK but the nine defined *)
Undefined(op) ==
  LET t == OpNibble(op)
      n == OpN(op)
      kk == OpKK(op)
  IN \/ t = 0 /\ op \notin {\h00E0, \h00EE}
     \/ t \in {5, 9} /\ n # 0
     \/ t = 8 /\ n \in (8..13) \cup {15}
     \/ t = 14 /\ kk \notin {\h9E, \hA1}
     \/ t = 15 /\ kk \notin {\h07, \h0A, \h15, \h18, \h1E, \h29, \h33, \h55, \h65}

(* C13: a cycle on an opcode outside the instruction set advances PC by 2
   and changes nothing else *)
UndefinedOpcodeIsNoOp ==
  [][ (CallEmulateCycle /\ CanFetch(Machine) /\ Undefined(Fetch(Machine))) =>
        /\ PC' = PC + InstructionSize
        /\ fault' = NoFault
        /\ UNCHANGED <<V, I, SP, DT, ST, Memory, Stack, Display, Keys, DrawFlag>> ]_vars


(* C14: Fx29 leaves I = 5 * Vx, the product taken in full (260 for Vx = 52);
   for Vx in 0..15 that is the address of the glyph of Vx in the font table *)
FontSpriteIsFiveTimes ==
  [][ \A x \in 0..(RegisterCount - 1) :
        ExecutesMisc(x, \h29) =>
          /\ I' = 5 * V[x]
          /\ V[x] < 16 =>
               \A r \in 0..(FontSpriteHeight - 1) :
                 Rd(Memory, I' + r) = fontSet[FontSpriteHeight * V[x] + r + 1] ]_vars

(* C15: Fx1E leaves I = (I + Vx) mod 2^16 and VF = 1 if the sum I + Vx,
   taken in full, is more than 0xFFF, else VF = 0 *)
AddToIndexSetsSumAndFlag ==
  [][ \A x \in 0..(RegisterCount - 1) :
        ExecutesMisc(x, \h1E) =>
          /\ I' = (I + V[x]) % 65536
          /\ V'[15] = IF I + V[x] > \hFFF THEN 1 ELSE 0 ]_vars


---------------------------------------------------------------------------
(* Claims about the call stack, checked under SpecBoot *)

ExecutesCall ==
  CallEmulateCycle /\ CanFetch(Machine) /\ OpNibble(Fetch(Machine)) = 2

ExecutesReturn ==
  CallEmulateCycle /\ CanFetch(Machine) /\ Fetch(Machine) = \h00EE

(* in a program of n nested calls (n is the low byte of its instruction 3):
   no fault; the slots below SP hold the
   return addresses of the pending calls, oldest first (the first call was
   made from instruction 0, every later one from instruction 4); V0 counts
   the calls made; once back at instruction 1, after the last return, every
   call has returned and SP = 0 *)
NestedStack ==
  LET n == SliceAt(rom, 7)
  IN (n \in 1..StackSize /\ SliceLen(rom) = 12 /\ rom = NestRom(n) /\ lastOp = "Cycle") =>
       /\ fault = NoFault
       /\ SP \in 0..n
       /\ \A j \in 0..(SP - 1) : Stack[j] = IF j = 0 THEN At(1) ELSE At(5)
       /\ PC = At(2) => SP = V[0] + 1
       /\ PC = At(1) => (SP = 0 /\ V[0] = n)

(* C17: with at most 16 calls pending, a call stores the address of the
   instruction after it at Stack[SP] and adds 1 to SP, and a return takes 1
   from SP and resumes at the address the latest pending call stored,
   leaving the stack as it is: so SP is the number of calls not yet returned
   from, the returns resume after the calls in the reverse order, and after
   n nested calls and n returns (n in 1..16) SP is 0 again and PC is the
   address after the first call *)
CallsReturnInReverseOrder ==
  [][ /\ (ExecutesCall /\ SP < StackSize) =>
            /\ SP' = SP + 1
            /\ Stack' = [Stack EXCEPT ![SP] = PC + InstructionSize]
            /\ PC' = OpNNN(Fetch(Machine))
      /\ (ExecutesReturn /\ SP > 0) =>
            /\ SP' = SP - 1
            /\ PC' = Stack[SP - 1]
            /\ Stack' = Stack
      /\ NestedStack' ]_vars

(* 16 nested calls have been made and returned from *)
ReturnedFromSixteenCalls ==
  /\ rom = NestRom(StackSize)
  /\ lastOp = "Cycle"
  /\ PC = At(1)
  /\ SP = 0
  /\ V[0] = StackSize
  /\ Stack[StackSize - 1] = At(5)


---------------------------------------------------------------------------
(* C18, checked under SpecBoot, with I..I+x inside memory: Fx55 leaves
   memory[I+k] = Vk for k in 0..x and every other byte, every register and I
   as they were, and Fx65 run next would leave the registers as they are;
   Fx65 leaves Vk = memory[I+k] for k in 0..x and every register above x,
   memory and I as they were, and Fx55 run next would leave memory as it
   is *)
StoreAndLoadAreInverse ==
  [][ \A x \in 0..(RegisterCount - 1) :
        /\ (ExecutesMisc(x, \h55) /\ I + x < MemorySize) =>
              /\ \A a \in 0..(MemorySize - 1) :
                   Rd(Memory', a) = IF a \in I..(I + x) THEN V[a - I]
                                    ELSE Rd(Memory, a)
              /\ V' = V
              /\ I' = I
              /\ LoadRegs(Machine', x, 0) = Ok(Machine')
        /\ (ExecutesMisc(x, \h65) /\ I + x < MemorySize) =>
              /\ \A k \in 0..(RegisterCount - 1) :
                   V'[k] = IF k <= x THEN Rd(Memory, I + k) ELSE V[k]
              /\ Memory' = Memory
              /\ I' = I
              /\ StoreRegs(Machine', x, 0) = Ok(Machine') ]_vars

(* V0..VF have been stored at 0xFF0..0xFFF and loaded back *)
StoredAndLoadedSixteen ==
  /\ rom = RegsRom(15, \hFF0, <<\h55, \h65>>)
  /\ lastOp = "Cycle"
  /\ PC = At(6)
  /\ \A k \in 0..(RegisterCount - 1) : Rd(Memory, \hFF0 + k) = V[k]
  /\ <<V[0], V[1], V[15]>> = <<\hA1, \hB2, \hC3>>


---------------------------------------------------------------------------
(* C19, checked under Spec: a cycle on an opcode that is neither Dxyn nor
   00E0, and a call of UpdateTimers, leave every cell of the display and
   DrawFlag as they were; and no cycle, no call of UpdateTimers and no load
   writes the key array *)
ExecutesOtherThanDrawOrClear ==
  /\ CallEmulateCycle
  /\ CanFetch(Machine)
  /\ OpNibble(Fetch(Machine)) # 13
  /\ Fetch(Machine) # \h00E0

OnlyDrawAndClearChangeDisplay ==
  [][ /\ (ExecutesOtherThanDrawOrClear \/ CallUpdateTimers) =>
            (Display' = Display /\ DrawFlag' = DrawFlag)
      /\ (CallEmulateCycle \/ CallUpdateTimers \/ Load) => Keys' = Keys ]_vars


---------------------------------------------------------------------------
(* C20, checked under SpecBoot: every array access of EmulateCycle is in
   range in every reachable state (the fetch at PC and PC+1, the accesses
   to memory at I and above, the key array indexed by Vx, the stack), so no
   cycle faults *)
EveryAccessInRange == fault = NoFault


---------------------------------------------------------------------------
(* Claims about the dirty flag, checked under SpecFrame *)

(* the pixels whose byte of channel ch is ColourOn *)
PixelsOn(ch) ==
  { <<(e[1] \div BytesPerPixel) \div DisplayWidth,
      (e[1] \div BytesPerPixel) % DisplayWidth>> :
      e \in { f \in PixelBuffer : f[1] % BytesPerPixel = ch /\ f[2] = ColourOn } }

(* the buffer shows the display: every byte that is not 0 is 255, the red,
   green and blue bytes are 255 at exactly the pixels of the cells that are
   set, and 0 at the others, and all 2048 alpha bytes are 255 *)
BufferShowsDisplay ==
  /\ \A e \in PixelBuffer :
       e[1] \in 0..(DisplayWidth * DisplayHeight * BytesPerPixel - 1) /\ e[2] = 255
  /\ PixelsOn(ColourR) = Display
  /\ PixelsOn(ColourG) = Display
  /\ PixelsOn(ColourB) = Display
  /\ Cardinality(PixelsOn(ColourA)) = DisplayWidth * DisplayHeight

CoreStep ==
  \/ CallEmulateCycle
  \/ CallUpdateTimers
  \/ \E bytes \in FrameROMs : CallLoad(bytes)

(* C21: in the game loop, whenever DrawFlag is false (and no cycle has
   panicked, which ends the program), PixelBuffer shows the display as it
   is; and no step of the core (a load, a cycle, a timer tick) takes
   DrawFlag from true to false *)
NoDisplayChangeIsLost ==
  [][ /\ (Running /\ ~DrawFlag => BufferShowsDisplay)'
      /\ CoreStep => (DrawFlag => DrawFlag') ]_vars

(* the glyph was drawn and shown, then the screen was cleared and the empty
   display shown: DrawFlag is false again and the buffer holds no lit pixel *)
ClearedScreenShown ==
  /\ rom = RomWaitClear
  /\ PC = At(3)
  /\ frame.at = "Update"
  /\ ~DrawFlag
  /\ Display = {}
  /\ V[0] = 9
  /\ PixelBuffer # NewPixelBuffer

====
